---- MODULE Spec2Model ----
(***************************************************************************)
(* Scene graph node (src/scene/node.rs): the enum Node over six kinds, its *)
(* variant id (from_id / id), the Base view (Deref / DerefMut), the        *)
(* is_/as_/as_mut casts generated by define_is_as, and the Visit impl that *)
(* stores the kind id in front of the payload.                             *)
(*                                                                         *)
(* The payload types (Base, Light, Camera, Mesh, Sprite, ParticleSystem)   *)
(* and the Visitor live in other files of the crate; they are modelled     *)
(* here from their documented protocol: named fields, a read/write mode,   *)
(* visit_field(name, &mut value) -> Result.                                *)
(***************************************************************************)
EXTENDS Integers, Sequences, FiniteSets, TLC

VARIABLES node, visitor, written, res

vars == <<node, visitor, written, res>>

-----------------------------------------------------------------------------
(* Bounds of the model.                                                    *)

\* Names of a node are 0..MaxName; 0 stands for the default (empty) name.
MaxName == 1

\* The kind-specific persisted field of a payload ranges over 0..MaxOwn.
MaxOwn == 1

\* Kind ids found in loaded data range over 0..MaxLoadedId and U8Max.
MaxLoadedId == 7

\* u8
U8Max == 255

U8 == 0..U8Max

Names == 0..MaxName

Owns == 0..MaxOwn

LoadedIds == (0..MaxLoadedId) \cup {U8Max}

-----------------------------------------------------------------------------
(* enum Node and its payloads.                                             *)

Kinds == {"Base", "Light", "Camera", "Mesh", "Sprite", "ParticleSystem"}

CastKinds == {"Mesh", "Camera", "Light", "ParticleSystem", "Sprite"}

\* Base: name is persisted, global (derived world state) is not.
BaseRecs == [name : Names, global : BOOLEAN]

DefaultBase == [name |-> 0, global |-> FALSE]

\* Every other payload embeds a Base and adds its own persisted data.
KindRecs == [base : BaseRecs, own : Owns]

DefaultKindRec == [base |-> DefaultBase, own |-> 0]

Payloads(k) == IF k = "Base" THEN BaseRecs ELSE KindRecs

DefaultPayload(k) == IF k = "Base" THEN DefaultBase ELSE DefaultKindRec

Variant(k, p) == [kind |-> k, payload |-> p]

Nodes == UNION {{Variant(k, p) : p \in Payloads(k)} : k \in Kinds}

\* impl Default for Node
NodeDefault == Variant("Base", DefaultBase)

-----------------------------------------------------------------------------
(* Results.                                                                *)

Ok(v) == [ok |-> TRUE, val |-> v, err |-> <<>>]

Err(e) == [ok |-> FALSE, val |-> <<>>, err |-> e]

-----------------------------------------------------------------------------
(* impl Node: variant ids.                                                 *)

\* The node from_id builds when every arm of its match is swapped for the
\* next kind's arm (Light and Camera exchanged).
from_id_swapped(i) ==
    CASE i = 0 -> Ok(Variant("Base", DefaultPayload("Base")))
      [] i = 1 -> Ok(Variant("Camera", DefaultPayload("Camera")))
      [] i = 2 -> Ok(Variant("Light", DefaultPayload("Light")))
      [] i = 3 -> Ok(Variant("Mesh", DefaultPayload("Mesh")))
      [] i = 4 -> Ok(Variant("Sprite", DefaultPayload("Sprite")))
      [] i = 5 -> Ok(Variant("ParticleSystem", DefaultPayload("ParticleSystem")))
      [] OTHER -> Err(<<"Invalid node kind", i>>)

\* from_id with a catch-all arm that falls back to Node::default().
from_id_defaulting(i) ==
    CASE i = 0 -> Ok(Variant("Base", DefaultPayload("Base")))
      [] i = 1 -> Ok(Variant("Light", DefaultPayload("Light")))
      [] i = 2 -> Ok(Variant("Camera", DefaultPayload("Camera")))
      [] i = 3 -> Ok(Variant("Mesh", DefaultPayload("Mesh")))
      [] i = 4 -> Ok(Variant("Sprite", DefaultPayload("Sprite")))
      [] i = 5 -> Ok(Variant("ParticleSystem", DefaultPayload("ParticleSystem")))
      [] OTHER -> Ok(NodeDefault)

\* pub fn from_id(id: u8) -> Result<Self, String>
from_id(i) ==
    CASE i = 0 -> Ok(Variant("Base", DefaultPayload("Base")))
      [] i = 1 -> Ok(Variant("Light", DefaultPayload("Light")))
      [] i = 2 -> Ok(Variant("Camera", DefaultPayload("Camera")))
      [] i = 3 -> Ok(Variant("Mesh", DefaultPayload("Mesh")))
      [] i = 4 -> Ok(Variant("Sprite", DefaultPayload("Sprite")))
      [] i = 5 -> Ok(Variant("ParticleSystem", DefaultPayload("ParticleSystem")))
      [] OTHER -> Err(<<"Invalid node kind", i>>)

\* pub fn id(&self) -> u8
id(n) ==
    CASE n.kind = "Base" -> 0
      [] n.kind = "Light" -> 1
      [] n.kind = "Camera" -> 2
      [] n.kind = "Mesh" -> 3
      [] n.kind = "Sprite" -> 4
      [] n.kind = "ParticleSystem" -> 5

-----------------------------------------------------------------------------
(* define_is_as: is_<kind>, as_<kind>, as_<kind>_mut.                      *)

Returned(v) == [panic |-> FALSE, val |-> v, msg |-> <<>>]

Panic(m) == [panic |-> TRUE, val |-> <<>>, msg |-> m]

\* pub fn $is(&self) -> bool
is_kind(kind, n) == IF n.kind = kind THEN TRUE ELSE FALSE

\* as_<kind> that hands out the payload whatever the variant is.
as_ref_unchecked(kind, n) == Returned(n.payload)

\* pub fn $as_ref(&self) -> &$result
as_ref(kind, n) ==
    IF n.kind = kind THEN Returned(n.payload)
    ELSE Panic(<<"Cast failed", kind>>)

\* pub fn $as_mut(&mut self) -> &mut $result
as_mut(kind, n) ==
    IF n.kind = kind THEN Returned(n.payload)
    ELSE Panic(<<"Cast failed", kind>>)

-----------------------------------------------------------------------------
(* impl Deref / DerefMut for Node: the Base view.  A reference into the    *)
(* node is the path of the Base record inside the active payload.          *)

\* The Base of a Base node is the payload itself; every other payload
\* derefs to the Base it embeds.
static_dispatch_deref(n) ==
    CASE n.kind = "Base" -> <<>>
      [] n.kind = "Mesh" -> <<"base">>
      [] n.kind = "Camera" -> <<"base">>
      [] n.kind = "Light" -> <<"base">>
      [] n.kind = "ParticleSystem" -> <<"base">>
      [] n.kind = "Sprite" -> <<"base">>

\* fn deref(&self) -> &Base
deref(n) ==
    IF static_dispatch_deref(n) = <<>> THEN n.payload ELSE n.payload.base

\* A deref_mut whose Sprite arm yields a temporary copy, so the store is lost.
deref_mut_sprite_copy(n, b) ==
    IF n.kind = "Sprite" THEN n
    ELSE IF static_dispatch_deref(n) = <<>> THEN [n EXCEPT !.payload = b]
    ELSE [n EXCEPT !.payload.base = b]

\* A deref_mut that rebuilds the node as a Base node around the stored value.
deref_mut_rebuild(n, b) == Variant("Base", b)

\* fn deref_mut(&mut self) -> &mut Base, followed by the store of b through
\* the returned reference.
deref_mut(n, b) ==
    IF static_dispatch_deref(n) = <<>> THEN [n EXCEPT !.payload = b]
    ELSE [n EXCEPT !.payload.base = b]

-----------------------------------------------------------------------------
(* Visitor: a session over named fields that is either reading or writing. *)
(* A field slot is <<>> when the field is absent and <<v>> when it holds v.*)
(* log lists the field names visited since the session's last hand-over.   *)

Keys == {"KindId", "Name", "Own"}

FieldMaps ==
    {[k \in Keys |-> CASE k = "KindId" -> a [] k = "Name" -> b [] k = "Own" -> c] :
        a \in {<<>>} \cup {<<i>> : i \in LoadedIds},
        b \in {<<>>} \cup {<<x>> : x \in Names},
        c \in {<<>>} \cup {<<x>> : x \in Owns}}

NoFields == [k \in Keys |-> <<>>]

\* Visitor::new()
NewSession == [reading |-> FALSE, fields |-> NoFields, log |-> <<>>]

is_reading(vis) == vis.reading

\* visit_field(name, &mut value): reading loads the stored value or fails
\* when the field is missing; writing stores the value or fails when the
\* name is taken.  value is the content of the variable after the call.
VisitField(vis, key, value) ==
    LET seen == [vis EXCEPT !.log = Append(@, key)] IN
    IF vis.reading
    THEN IF vis.fields[key] = <<>>
         THEN [ok |-> FALSE, vis |-> seen, value |-> value,
               err |-> <<"FieldDoesNotExist", key>>]
         ELSE [ok |-> TRUE, vis |-> seen, value |-> vis.fields[key][1],
               err |-> <<>>]
    ELSE IF vis.fields[key] # <<>>
         THEN [ok |-> FALSE, vis |-> seen, value |-> value,
               err |-> <<"FieldAlreadyExists", key>>]
         ELSE [ok |-> TRUE, vis |-> [seen EXCEPT !.fields[key] = <<value>>],
               value |-> value, err |-> <<>>]

\* impl Visit for Base: the name is the persisted field.
BaseVisit(b, vis) ==
    LET f == VisitField(vis, "Name", b.name) IN
    [val |-> [b EXCEPT !.name = f.value], vis |-> f.vis,
     res |-> IF f.ok THEN Ok(<<>>) ELSE Err(f.err)]

\* impl Visit for Light, Camera, Mesh, Sprite, ParticleSystem: the embedded
\* Base first, then the kind's own data; the first error ends the visit.
KindVisit(p, vis) ==
    LET b == BaseVisit(p.base, vis)
        withBase == [p EXCEPT !.base = b.val]
        f == VisitField(b.vis, "Own", p.own)
    IN IF ~b.res.ok
       THEN [val |-> withBase, vis |-> b.vis, res |-> b.res]
       ELSE [val |-> [withBase EXCEPT !.own = f.value], vis |-> f.vis,
             res |-> IF f.ok THEN Ok(<<>>) ELSE Err(f.err)]

Visited(n, r) == [node |-> [n EXCEPT !.payload = r.val], vis |-> r.vis, res |-> r.res]

\* static_dispatch!(self, visit, name, visitor)
static_dispatch(n, vis) ==
    CASE n.kind = "Base" -> Visited(n, BaseVisit(n.payload, vis))
      [] n.kind = "Mesh" -> Visited(n, KindVisit(n.payload, vis))
      [] n.kind = "Camera" -> Visited(n, KindVisit(n.payload, vis))
      [] n.kind = "Light" -> Visited(n, KindVisit(n.payload, vis))
      [] n.kind = "ParticleSystem" -> Visited(n, KindVisit(n.payload, vis))
      [] n.kind = "Sprite" -> Visited(n, KindVisit(n.payload, vis))

-----------------------------------------------------------------------------
(* impl Visit for Node.                                                    *)

\* A visit that checks the decoded id but reads into the node it was given.
visit_no_replace(n, vis) ==
    LET f == VisitField(vis, "KindId", id(n)) IN
    IF ~f.ok THEN [node |-> n, vis |-> f.vis, res |-> Err(f.err)]
    ELSE IF is_reading(f.vis) /\ ~from_id(f.value).ok
    THEN [node |-> n, vis |-> f.vis, res |-> Err(from_id(f.value).err)]
    ELSE static_dispatch(n, f.vis)

\* A visit that rebuilds the node only when the decoded kind differs.
visit_keep_same_kind(n, vis) ==
    LET f == VisitField(vis, "KindId", id(n)) IN
    IF ~f.ok THEN [node |-> n, vis |-> f.vis, res |-> Err(f.err)]
    ELSE IF is_reading(f.vis) /\ f.value # id(n)
    THEN IF from_id(f.value).ok
         THEN static_dispatch(from_id(f.value).val, f.vis)
         ELSE [node |-> n, vis |-> f.vis, res |-> Err(from_id(f.value).err)]
    ELSE static_dispatch(n, f.vis)

\* A visit that hands the payload to the visitor before the kind id.
visit_payload_first(n, vis) ==
    LET d == static_dispatch(n, vis)
        f == VisitField(d.vis, "KindId", id(n))
    IN IF ~d.res.ok THEN d
       ELSE IF ~f.ok THEN [node |-> d.node, vis |-> f.vis, res |-> Err(f.err)]
       ELSE IF is_reading(f.vis) /\ ~from_id(f.value).ok
       THEN [node |-> d.node, vis |-> f.vis, res |-> Err(from_id(f.value).err)]
       ELSE [node |-> d.node, vis |-> f.vis, res |-> Ok(<<>>)]

\* A visit that drops the payload's result and reports success.
visit_swallow(n, vis) ==
    LET f == VisitField(vis, "KindId", id(n))
        made == from_id(f.value)
        d == static_dispatch(IF is_reading(f.vis) /\ made.ok THEN made.val ELSE n, f.vis)
    IN IF ~f.ok THEN [node |-> n, vis |-> f.vis, res |-> Err(f.err)]
       ELSE IF is_reading(f.vis) /\ ~made.ok
       THEN [node |-> n, vis |-> f.vis, res |-> Err(made.err)]
       ELSE [d EXCEPT !.res = Ok(<<>>)]

\* A visit that resets the node to the default before it reports a bad id.
visit_reset_on_error(n, vis) ==
    LET f == VisitField(vis, "KindId", id(n))
        made == from_id(f.value)
    IN IF ~f.ok THEN [node |-> NodeDefault, vis |-> f.vis, res |-> Err(f.err)]
       ELSE IF is_reading(f.vis)
       THEN IF ~made.ok
            THEN [node |-> NodeDefault, vis |-> f.vis, res |-> Err(made.err)]
            ELSE static_dispatch(made.val, f.vis)
       ELSE static_dispatch(n, f.vis)

\* fn visit(&mut self, name: &str, visitor: &mut Visitor) -> VisitResult
\*   let mut kind_id = self.id();
\*   kind_id.visit("KindId", visitor)?;
\*   if visitor.is_reading() { *self = Node::from_id(kind_id)?; }
\*   static_dispatch!(self, visit, name, visitor)
visit(n, vis) ==
    LET kind_id == id(n)
        f == VisitField(vis, "KindId", kind_id)
        made == from_id(f.value)
    IN IF ~f.ok THEN [node |-> n, vis |-> f.vis, res |-> Err(f.err)]
       ELSE IF is_reading(f.vis)
       THEN IF ~made.ok
            THEN [node |-> n, vis |-> f.vis, res |-> Err(made.err)]
            ELSE static_dispatch(made.val, f.vis)
       ELSE static_dispatch(n, f.vis)

-----------------------------------------------------------------------------
(* The program: one node slot, one visitor session, and the outcome of the *)
(* last call.  written is <<v>> while the session holds exactly what a     *)
(* complete write of the node v into a new session produced, else <<>>.    *)

\* op: the call; arg: its argument; out: what it returned; prev: the node
\* before the call; log: the fields the call visited, in order.
Outcome(op, arg, out, prev, log, p) ==
    [op |-> op, arg |-> arg, out |-> out, prev |-> prev, log |-> log, panicked |-> p]

Init ==
    /\ node = NodeDefault
    /\ visitor = NewSession
    /\ written = <<>>
    /\ res = Outcome("default", <<>>, <<>>, NodeDefault, <<>>, FALSE)

\* A panic ends the program.
Running == ~res.panicked

\* Explicit construction of a node of some kind, stored in the slot.
Construct(n) ==
    /\ Running
    /\ node' = n
    /\ res' = Outcome("construct", <<>>, <<>>, n, <<>>, FALSE)
    /\ UNCHANGED <<visitor, written>>

\* Node::Mesh(Default::default()) and the like.
ConstructDefault(kind) == Construct(Variant(kind, DefaultPayload(kind)))

CallId ==
    /\ Running
    /\ res' = Outcome("id", <<>>, id(node), node, <<>>, FALSE)
    /\ UNCHANGED <<node, visitor, written>>

CallFromId(i) ==
    /\ Running
    /\ res' = Outcome("from_id", i, from_id(i), node, <<>>, FALSE)
    /\ UNCHANGED <<node, visitor, written>>

\* Node::from_id(node.id())
CallFromIdOfId ==
    /\ Running
    /\ res' = Outcome("from_id_of_id", <<>>, from_id(id(node)), node, <<>>, FALSE)
    /\ UNCHANGED <<node, visitor, written>>

CallIs(kind) ==
    /\ Running
    /\ res' = Outcome("is", kind, is_kind(kind, node), node, <<>>, FALSE)
    /\ UNCHANGED <<node, visitor, written>>

CallAsRef(kind) ==
    /\ Running
    /\ res' = Outcome("as_ref", kind, as_ref(kind, node), node, <<>>,
                      as_ref(kind, node).panic)
    /\ UNCHANGED <<node, visitor, written>>

\* as_<kind>_mut, then a store of own data x through the returned reference.
CallAsMut(kind, x) ==
    /\ Running
    /\ res' = Outcome("as_mut", kind, as_mut(kind, node), node, <<>>,
                      as_mut(kind, node).panic)
    /\ node' = IF as_mut(kind, node).panic THEN node
               ELSE [node EXCEPT !.payload.own = x]
    /\ UNCHANGED <<visitor, written>>

\* A read through the Base view.
CallDeref ==
    /\ Running
    /\ res' = Outcome("deref", <<>>, deref(node), node, <<>>, FALSE)
    /\ UNCHANGED <<node, visitor, written>>

\* The name x set through the mutable Base view; arg is the Base stored.
CallDerefMut(x) ==
    LET b == [deref(node) EXCEPT !.name = x] IN
    /\ Running
    /\ node' = deref_mut(node, b)
    /\ res' = Outcome("deref_mut", b, <<>>, node, <<>>, FALSE)
    /\ UNCHANGED <<visitor, written>>

\* node.visit(name, &mut visitor)
CallVisit ==
    LET r == visit(node, visitor) IN
    /\ Running
    /\ node' = r.node
    /\ visitor' = [r.vis EXCEPT !.log = <<>>]
    /\ res' = Outcome("visit", visitor, r.res, node, r.vis.log, FALSE)
    /\ written' = IF ~visitor.reading /\ visitor.fields = NoFields /\ r.res.ok
                  THEN <<node>>
                  ELSE IF r.vis.fields = visitor.fields THEN written ELSE <<>>

\* Visitor::new()
NewVisitor ==
    /\ Running
    /\ visitor' = NewSession
    /\ written' = <<>>
    /\ res' = Outcome("session", <<>>, <<>>, node, <<>>, FALSE)
    /\ UNCHANGED node

\* Another object writes one of its fields into the session.
ForeignWrite(key, v) ==
    LET f == VisitField(visitor, key, v) IN
    /\ Running
    /\ ~visitor.reading
    /\ f.ok
    /\ visitor' = [f.vis EXCEPT !.log = <<>>]
    /\ written' = <<>>
    /\ res' = Outcome("session", <<>>, <<>>, node, <<>>, FALSE)
    /\ UNCHANGED node

\* The written data saved and loaded again: the same fields, now read.
Reopen ==
    /\ Running
    /\ ~visitor.reading
    /\ visitor' = [visitor EXCEPT !.reading = TRUE]
    /\ res' = Outcome("session", <<>>, <<>>, node, <<>>, FALSE)
    /\ UNCHANGED <<node, written>>

\* Saving and loading nodes, among data of any origin.
Next ==
    \/ \E n \in Nodes : Construct(n)
    \/ CallVisit
    \/ NewVisitor
    \/ \E v \in LoadedIds : ForeignWrite("KindId", v)
    \/ \E v \in Names : ForeignWrite("Name", v)
    \/ \E v \in Owns : ForeignWrite("Own", v)
    \/ Reopen

Spec == Init /\ [][Next]_vars

\* The node's interface in memory, and saving and loading its own data.
NextApi ==
    \/ \E kind \in Kinds : ConstructDefault(kind)
    \/ CallId
    \/ \E kind \in CastKinds : CallIs(kind)
    \/ \E kind \in CastKinds : CallAsRef(kind)
    \/ \E kind \in CastKinds : \E x \in Owns : CallAsMut(kind, x)
    \/ CallDeref
    \/ \E x \in Names : CallDerefMut(x)
    \/ CallVisit
    \/ NewVisitor
    \/ Reopen

SpecApi == Init /\ [][NextApi]_vars

\* The variant ids alone: every u8 is decoded, every node is encoded.
NextId ==
    \/ \E n \in Nodes : Construct(n)
    \/ \E i \in U8 : CallFromId(i)
    \/ CallId
    \/ CallFromIdOfId

SpecId == Init /\ [][NextId]_vars

-----------------------------------------------------------------------------
(* Properties of the variant ids.                                          *)

\* C1: from_id succeeds on every i in 0..5 and the node it returns has id i;
\* from_id(x.id()) succeeds for every node x and returns a node of x's kind
\* and id; id maps Base, Light, Camera, Mesh, Sprite, ParticleSystem to
\* 0, 1, 2, 3, 4, 5, and two nodes with the same id have the same kind.
IdBijection ==
    /\ (res.op = "from_id" /\ res.arg \in 0..5) =>
           (res.out.ok /\ id(res.out.val) = res.arg)
    /\ res.op = "from_id_of_id" =>
           (res.out.ok /\ id(res.out.val) = id(node) /\ res.out.val.kind = node.kind)
    /\ res.op = "id" =>
           res.out = (CASE node.kind = "Base" -> 0
                        [] node.kind = "Light" -> 1
                        [] node.kind = "Camera" -> 2
                        [] node.kind = "Mesh" -> 3
                        [] node.kind = "Sprite" -> 4
                        [] node.kind = "ParticleSystem" -> 5)
    /\ (res.op = "from_id" /\ res.out.ok /\ id(res.out.val) = id(node)) =>
           res.out.val.kind = node.kind

\* from_id(5) has returned a ParticleSystem while the slot holds a Mesh.
IdBijectionWitness ==
    /\ res.op = "from_id"
    /\ res.arg = 5
    /\ res.out.ok
    /\ res.out.val.kind = "ParticleSystem"
    /\ node.kind = "Mesh"

\* C2: for every u8 from 6 to 255 from_id fails, the error names the
\* identifier, and no node is returned.
UnknownKindFails ==
    (res.op = "from_id" /\ res.arg \in 6..U8Max) =>
        /\ ~res.out.ok
        /\ res.out.err = <<"Invalid node kind", res.arg>>
        /\ res.out.val \notin Nodes

\* from_id(6) has failed.
UnknownKindFailsWitness ==
    /\ res.op = "from_id"
    /\ res.arg = 6
    /\ ~res.out.ok

-----------------------------------------------------------------------------
(* Properties of the casts and of the Base view.                           *)

\* C4: is_<kind> never panics and answers true exactly for a node of that
\* kind, so a Base node gets false five times; as_<kind> and as_<kind>_mut
\* return the payload of a node of that kind and panic on every other node,
\* a Base node included.
DowncastSound ==
    /\ \A kind \in CastKinds : is_kind(kind, node) = (node.kind = kind)
    /\ res.op = "is" =>
           (~res.panicked /\ res.out = (node.kind = res.arg))
    /\ res.op = "as_ref" =>
           IF node.kind = res.arg
           THEN ~res.panicked /\ ~res.out.panic /\ res.out.val = node.payload
           ELSE res.panicked /\ res.out.panic
    /\ res.op = "as_mut" =>
           IF res.prev.kind = res.arg
           THEN /\ ~res.panicked
                /\ ~res.out.panic
                /\ res.out.val = res.prev.payload
                /\ node.kind = res.arg
           ELSE res.panicked /\ res.out.panic /\ node = res.prev

\* as_light() on a Camera node has panicked.
DowncastSoundWitness ==
    /\ res.op = "as_ref"
    /\ res.arg = "Light"
    /\ node.kind = "Camera"
    /\ res.panicked

\* C8: for every kind, a name set through the mutable Base view is what a
\* read through the Base view returns next; the view is the Base record of
\* the active payload, and the store leaves the kind, the rest of the Base
\* and the payload's own data as they were.
BaseViewUniversal ==
    /\ [](res.op = "deref_mut" =>
            /\ deref(node) = res.arg
            /\ deref(node).global = deref(res.prev).global
            /\ node.kind = res.prev.kind
            /\ node.kind # "Base" => node.payload.own = res.prev.payload.own)
    /\ [](res.op = "deref" =>
            res.out = (IF node.kind = "Base" THEN node.payload ELSE node.payload.base))
    /\ [][(res.op = "deref_mut" /\ res'.op = "deref") =>
            (res'.out = res.arg /\ node'.kind = res.prev.kind)]_vars

\* A Sprite's name, set through the view, has been read back through it.
BaseViewUniversalWitness ==
    /\ res.op = "deref"
    /\ node.kind = "Sprite"
    /\ res.out.name = MaxName

\* C9: id, is_<kind>, as_<kind>, as_<kind>_mut, reads and stores through the
\* Base view and write-mode visits leave the node's id as it was; a step
\* changes the id only when it is a read-mode visit or stores a newly
\* constructed node in the slot.
KindStable ==
    /\ [][(\/ res'.op \in {"id", "is", "as_ref", "as_mut", "deref", "deref_mut"}
           \/ (res'.op = "visit" /\ ~res'.arg.reading))
          => id(node') = id(node)]_vars
    /\ [][id(node') # id(node) =>
            (\/ res'.op = "construct"
             \/ (res'.op = "visit" /\ res'.arg.reading))]_vars

\* A Mesh has been written out after a store through its Base view.
KindStableWitness ==
    /\ res.op = "visit"
    /\ ~res.arg.reading
    /\ res.out.ok
    /\ node.kind = "Mesh"
    /\ deref(node).name = MaxName

-----------------------------------------------------------------------------
(* Properties of visit.  In the outcome of a visit, arg is the session the *)
(* visit was given, prev the node it was given, node the node it left.     *)

\* The session refuses a visit of the field key.
Refused(vis, key) ==
    IF vis.reading THEN vis.fields[key] = <<>> ELSE vis.fields[key] # <<>>

\* The error of the session when it refuses the field key.
Refusal(vis, key) ==
    IF vis.reading THEN <<"FieldDoesNotExist", key>> ELSE <<"FieldAlreadyExists", key>>

\* C3: a write-mode visit of any node v into a new session succeeds and
\* leaves v as it was; a read-mode visit over the data so produced succeeds
\* and leaves the destination with v's kind and with the name and own data
\* of v, whatever the destination held before.
RoundTrip ==
    /\ (res.op = "visit" /\ ~res.arg.reading /\ res.arg.fields = NoFields) =>
           (res.out.ok /\ node = res.prev /\ written = <<res.prev>>)
    /\ (res.op = "visit" /\ res.arg.reading /\ written # <<>>) =>
           /\ res.out.ok
           /\ node.kind = written[1].kind
           /\ id(node) = id(written[1])
           /\ deref(node).name = deref(written[1]).name
           /\ node.kind # "Base" => node.payload.own = written[1].payload.own

\* A Mesh with a name and own data has been read back into a slot that held
\* a Camera with other contents.
RoundTripWitness ==
    /\ res.op = "visit"
    /\ res.arg.reading
    /\ written # <<>>
    /\ written[1].kind = "Mesh"
    /\ deref(written[1]).name = MaxName
    /\ written[1].payload.own = MaxOwn
    /\ res.prev.kind = "Camera"
    /\ deref(res.prev).name = 0
    /\ node.kind = "Mesh"

\* C5: every visit, reading or writing, visits "KindId" first and never
\* again; a write-mode visit stores the id of the node's kind under it,
\* unless the session refuses the field, and then nothing else is visited.
TagFirst ==
    res.op = "visit" =>
        /\ Len(res.log) >= 1
        /\ res.log[1] = "KindId"
        /\ \A i \in 2..Len(res.log) : res.log[i] # "KindId"
        /\ ~res.arg.reading =>
               IF Refused(res.arg, "KindId")
               THEN res.log = <<"KindId">> /\ ~res.out.ok
               ELSE visitor.fields["KindId"] = <<id(res.prev)>>

\* A Light has been written out: the id, then the name, then the own data.
TagFirstWitness ==
    /\ res.op = "visit"
    /\ ~res.arg.reading
    /\ res.prev.kind = "Light"
    /\ res.log = <<"KindId", "Name", "Own">>
    /\ visitor.fields["KindId"] = <<1>>

\* C6: a read-mode visit that decodes an id i in 0..5 leaves a node of id i
\* in which every field is either the default or the value read from the
\* session, so nothing of the previous node is left, also when that node
\* had kind i already.
ReadReplaces ==
    (/\ res.op = "visit"
     /\ res.arg.reading
     /\ res.arg.fields["KindId"] # <<>>
     /\ res.arg.fields["KindId"][1] \in 0..5) =>
        LET f == res.arg.fields IN
        /\ id(node) = f["KindId"][1]
        /\ Len(res.log) >= 2
        /\ deref(node).global = DefaultBase.global
        /\ deref(node).name = (IF f["Name"] = <<>> THEN DefaultBase.name ELSE f["Name"][1])
        /\ node.kind # "Base" =>
               node.payload.own = (IF f["Name"] # <<>> /\ f["Own"] # <<>>
                                   THEN f["Own"][1] ELSE DefaultKindRec.own)

\* A Sprite read over a Sprite: the name was not in the data, and the old
\* name, own data and world state are gone.
ReadReplacesWitness ==
    /\ res.op = "visit"
    /\ res.arg.reading
    /\ res.arg.fields["KindId"] = <<4>>
    /\ res.arg.fields["Name"] = <<>>
    /\ res.prev = Variant("Sprite", [base |-> [name |-> MaxName, global |-> TRUE],
                                     own |-> MaxOwn])
    /\ node = Variant("Sprite", DefaultKindRec)

\* C7: when the payload's visit fails, that is when the session refuses the
\* last payload field visited, the node's visit returns the session's error
\* for that field as it is, and no field is visited twice.
PayloadErrorForwarded ==
    res.op = "visit" =>
        /\ \A i, j \in 1..Len(res.log) : res.log[i] = res.log[j] => i = j
        /\ (Len(res.log) >= 2 /\ Refused(res.arg, res.log[Len(res.log)])) =>
               (~res.out.ok /\ res.out.err = Refusal(res.arg, res.log[Len(res.log)]))
        /\ (Len(res.log) >= 2 /\ ~Refused(res.arg, res.log[Len(res.log)])) =>
               res.out.ok

\* Reading a Camera has failed at its own data, the name having been read.
PayloadErrorForwardedWitness ==
    /\ res.op = "visit"
    /\ res.arg.reading
    /\ node.kind = "Camera"
    /\ res.log = <<"KindId", "Name", "Own">>
    /\ res.out = Err(<<"FieldDoesNotExist", "Own">>)

\* C10: a read-mode visit whose "KindId" is missing or is not in 0..5 fails,
\* leaves the node exactly as it was and visits no field of a payload.
IdFailureLeavesNode ==
    (res.op = "visit" /\ res.arg.reading) =>
        LET slot == res.arg.fields["KindId"] IN
        /\ slot = <<>> =>
               /\ res.out = Err(<<"FieldDoesNotExist", "KindId">>)
               /\ node = res.prev
               /\ res.log = <<"KindId">>
        /\ (slot # <<>> /\ slot[1] \notin 0..5) =>
               /\ res.out = Err(<<"Invalid node kind", slot[1]>>)
               /\ node = res.prev
               /\ res.log = <<"KindId">>

\* Reading data of kind 255 into a named Mesh has failed.
IdFailureLeavesNodeWitness ==
    /\ res.op = "visit"
    /\ res.arg.reading
    /\ res.arg.fields["KindId"] = <<U8Max>>
    /\ res.arg.fields["Name"] # <<>>
    /\ ~res.out.ok
    /\ node.kind = "Mesh"
    /\ deref(node).name = MaxName

====
